---- MODULE Spec2Model ----
(***************************************************************************)
(* A model of the telegraf client: ClientBase.metric, the two transports   *)
(* (TelegrafClient.send over UDP, HttpClient.send over HTTP) and the       *)
(* TimerHelper used as a decorator (sync and async) and as a context       *)
(* manager.                                                                *)
(*                                                                         *)
(* Text is a sequence of characters (one-character strings).  time() is a  *)
(* clock counting whole milliseconds.  telegraf.protocol.Line is not part  *)
(* of the sources at hand; its serialiser is written from section 4.1 of   *)
(* the specification.                                                      *)
(***************************************************************************)
EXTENDS Integers, Sequences, FiniteSets

\* ------------------------------------------------------------- bounds
\* The clock runs from 0 to MaxTime.
MaxTime == 1
\* Units of work in flight at once (open invocations plus open with-blocks).
MaxActive == 2

\* --------------------------------------------------------------- text
\* A lone surrogate code point: a legal character of a Python str that the
\* utf8 codec refuses to encode.
Surrogate == "\\udc80"

\* Python's None / a string, for an optional argument or attribute.
None == [some |-> FALSE, v |-> <<>>]
Some(x) == [some |-> TRUE, v |-> x]

\* None / a number, for an optional timestamp or a start time not yet set.
NoNumber == [some |-> FALSE, v |-> 0]
Number(n) == [some |-> TRUE, v |-> n]

\* Truth value of an optional string: None and "" are falsy.
Truthy(o) == o.some /\ o.v # <<>>

\* Names used by the calls below.
Cpu == <<"c", "p", "u">>
Db == <<"d", "b">>
Bad == <<"f", Surrogate>>
Env == <<"e", "n", "v">>
Host == <<"h", "o", "s", "t">>
Units == <<"u", "n", "i", "t", "s">>
Value == <<"v", "a", "l", "u", "e">>
Prod == <<"p", "r", "o", "d">>
Staging == <<"s", "t", "a", "g", "i", "n", "g">>

\* The empty mapping {}.
EmptyMap == [k \in {} |-> <<>>]
EnvProd == [k \in {Env} |-> Prod]
EnvStagingHostA == [k \in {Env, Host} |-> IF k = Env THEN Staging ELSE <<"a">>]
UnitsX == [k \in {Units} |-> <<"x">>]

\* ------------------------------------------------------------- values
\* A number as Python types it.  A float carries its value in thousandths:
\* FloatV(1500) is 1.5.
IntV(n) == [t |-> "int", v |-> n]
FloatV(n) == [t |-> "float", v |-> n]

\* The values argument of metric(): None, a mapping of fields, or a scalar.
NoValues == [kind |-> "none", val |-> IntV(0), map |-> EmptyMap]
Scalar(x) == [kind |-> "scalar", val |-> x, map |-> EmptyMap]
Mapping(m) == [kind |-> "map", val |-> IntV(0), map |-> m]

\* ----------------------------------------------- telegraf.protocol.Line
\* Line(measurement, values, tags, timestamp): the object keeps its arguments.
Line(name, values, tags, timestamp) ==
    [name |-> name, values |-> values, tags |-> tags, timestamp |-> timestamp]

\* Commas, spaces and equals signs get a backslash in front.
RECURSIVE Escape(_)
Escape(s) ==
    IF s = <<>> THEN <<>>
    ELSE (IF Head(s) \in {",", " ", "="} THEN <<"\\", Head(s)>> ELSE <<Head(s)>>)
         \o Escape(Tail(s))

Digit(d) == SubSeq(<<"0", "1", "2", "3", "4", "5", "6", "7", "8", "9">>, d + 1, d + 1)

\* Decimal digits of a natural number.
RECURSIVE Dec(_)
Dec(n) == IF n < 10 THEN Digit(n) ELSE Dec(n \div 10) \o Digit(n % 10)

\* integer -> digits and the suffix i; float -> plain decimal, no suffix.
FormatValue(x) ==
    IF x.t = "int" THEN Dec(x.v) \o <<"i">>
    ELSE Dec(x.v \div 1000) \o <<".">>
         \o Digit((x.v \div 100) % 10) \o Digit((x.v \div 10) % 10) \o Digit(x.v % 10)

\* Keys are written in lexicographic order.
KeyOrder == <<Env, Host, Units, Value>>
SortedKeys(m) == SelectSeq(KeyOrder, LAMBDA k : k \in DOMAIN m)

\* A scalar is one field under the key "value".
OutputFields(values) ==
    IF values.kind = "scalar" THEN [k \in {Value} |-> values.val] ELSE values.map

RECURSIVE JoinTags(_, _)
JoinTags(keys, tags) ==
    IF keys = <<>> THEN <<>>
    ELSE <<",">> \o Escape(Head(keys)) \o <<"=">> \o Escape(tags[Head(keys)])
         \o JoinTags(Tail(keys), tags)

RECURSIVE JoinFields(_, _)
JoinFields(keys, fields) ==
    IF keys = <<>> THEN <<>>
    ELSE Escape(Head(keys)) \o <<"=">> \o FormatValue(fields[Head(keys)])
         \o (IF Tail(keys) = <<>> THEN <<>> ELSE <<",">>)
         \o JoinFields(Tail(keys), fields)

\* measurement[,tag=value...] field=value[,field=value...] [timestamp]
ToLineProtocol(line) ==
    Escape(line.name.v)
    \o JoinTags(SortedKeys(line.tags), line.tags)
    \o <<" ">>
    \o JoinFields(SortedKeys(OutputFields(line.values)), OutputFields(line.values))
    \o (IF line.timestamp.some THEN <<" ">> \o Dec(line.timestamp.v) ELSE <<>>)

\* --------------------------------------------------------------- state
VARIABLES
    client,      \* the client: [kind, tags]; host and port only address the peer
    timers,      \* TimerHelper instances by id: their attributes
    wrappers,    \* the decorated functions: [timer, func]
    calls,       \* open invocations of decorated functions: how many per [timer, func, start]
    entered,     \* history: per timer, the with-blocks still open, innermost last: when
                 \*   each was entered and whether the timer had reported before
    reported,    \* history: per timer, whether a with-block of it has reported
    configured,  \* history: per timer, the measurement name its constructor was given
    now,         \* time()
    out          \* the latest operation: its arguments, what the caller saw and what
                 \*   send() was given

vars == <<client, timers, wrappers, calls, entered, reported, configured, now, out>>

TimerIds == {"t1"}

\* The functions the application decorates; g is declared async def.
FuncNames == {"f", "g"}
IsCoroutineFunction(f) == f = "g"

\* '%s.%s' % (func.__module__, func.__name__), for functions of module "m".
DerivedName(f) == <<"m", ".">> \o <<f>>

Times == 0 .. MaxTime
CallKeys == [timer : TimerIds, func : FuncNames, start : Times]

\* What the application passes in.
MetricNames == {None, Some(<<>>), Some(Cpu), Some(Bad)}
MetricValues == {NoValues, Mapping(EmptyMap), Scalar(IntV(0)), Scalar(IntV(50)),
                 Mapping([k \in {Value} |-> FloatV(2000)])}
CallTags == {None, Some(EmptyMap), Some(EnvStagingHostA)}
Timestamps == {NoNumber, Number(7)}
ClientKinds == {"udp", "http"}
ClientTags == {None, Some(EnvProd)}
TimerNames == {None, Some(<<>>), Some(Db), Some(Bad)}
TimerTags == {None, Some(UnitsX)}

\* What the wrapped function or the with-block does: returns or raises.
Results == {"returned", "AppError"}

RECURSIVE Sum(_, _)
Sum(f, S) == IF S = {} THEN 0
             ELSE LET x == CHOOSE y \in S : TRUE IN f[x] + Sum(f, S \ {x})

\* Units of work in flight.
Active == Sum(calls, CallKeys) + Sum([i \in TimerIds |-> Len(entered[i])], TimerIds)

NoTimer == [alive |-> FALSE, measurement_name |-> None, tags |-> EmptyMap,
            use_ms |-> FALSE, start_time |-> NoNumber]

\* The arguments of a call of metric().
Args(name, values, tags, timestamp) ==
    [name |-> name, values |-> values, tags |-> tags, timestamp |-> timestamp]

\* What an operation leaves behind for its caller.
Outcome(op, raised, sends) ==
    [op |-> op, raised |-> raised, sends |-> sends, at |-> now,
     args |-> Args(None, NoValues, None, NoNumber),
     timer |-> "-", func |-> "-", result |-> "-", matched |-> FALSE,
     again |-> FALSE, unit_start |-> 0]

\* ----------------------------------------------------------- transport
\* str.encode('utf8') raises UnicodeEncodeError on a lone surrogate.
Utf8Encodable(data) == \A k \in 1 .. Len(data) : data[k] # Surrogate

\* What socket.sendto can do; an HTTP post is only queued.
SendtoOutcomes == IF client.kind = "udp" THEN {"ok", "socket.error", "RuntimeError"}
                  ELSE {"queued"}

\* TelegrafClient.send: encode, add the newline, sendto; socket.error and
\* RuntimeError are swallowed, nothing else is.
UdpSend(data, sendto) ==
    IF ~Utf8Encodable(data)
    THEN [data |-> data, payload |-> <<>>, result |-> "raised",
          raised |-> "UnicodeEncodeError"]
    ELSE [data |-> data, payload |-> data \o <<"\n">>,
          result |-> IF sendto = "ok" THEN "sent" ELSE "dropped", raised |-> "none"]

\* HttpClient.send: the session queues the POST and returns a future at once.
HttpSend(data) ==
    [data |-> data, payload |-> data, result |-> "posted", raised |-> "none"]

\* self.send(data): one call of the client's send, as the caller sees it.
ClientSend(data, sendto) ==
    IF client.kind = "udp" THEN UdpSend(data, sendto) ELSE HttpSend(data)

\* client.send(line.to_line_protocol()), with the line it came from.
Send(line, sendto) ==
    LET r == CHOOSE x \in {ClientSend(ToLineProtocol(line), sendto)} : TRUE
    IN [line |-> line, data |-> r.data, payload |-> r.payload, result |-> r.result,
        raised |-> r.raised]

\* --------------------------------------------------------------- client
\* tags or {}
OrEmpty(tags) == IF tags.some THEN tags.v ELSE EmptyMap

\* TelegrafClient(tags=...) or HttpClient(tags=...)
Init ==
    /\ client \in {[kind |-> k, tags |-> OrEmpty(t)] : k \in ClientKinds, t \in ClientTags}
    /\ timers = [i \in TimerIds |-> NoTimer]
    /\ wrappers = {}
    /\ calls = [c \in CallKeys |-> 0]
    /\ entered = [i \in TimerIds |-> <<>>]
    /\ reported = [i \in TimerIds |-> FALSE]
    /\ configured = [i \in TimerIds |-> None]
    /\ now = 0
    /\ out = Outcome("init", "none", <<>>)

\* A variant of the test below that asks for the truth value of values, and so
\* takes the number 0 for no data.
IsEmptyCallFalsy(name, values) ==
    \/ ~Truthy(name)
    \/ values.kind = "none"
    \/ values.kind = "map" /\ values.map = EmptyMap
    \/ values.kind = "scalar" /\ values.val.v = 0

\* if not measurement_name or values in (None, {})
IsEmptyCall(name, values) ==
    \/ ~Truthy(name)
    \/ values.kind = "none"
    \/ values.kind = "map" /\ values.map = EmptyMap

\* A variant of the merge below in which the client's tag wins.
MergeTagsDefaultsWin(defaults, tags) ==
    [k \in DOMAIN defaults \cup DOMAIN tags |->
        IF k \in DOMAIN defaults THEN defaults[k] ELSE tags[k]]

\* dict(self.tags, **tags)
MergeTags(defaults, tags) ==
    [k \in DOMAIN defaults \cup DOMAIN tags |->
        IF k \in DOMAIN tags THEN tags[k] ELSE defaults[k]]

\* The line metric() builds.
MetricLine(name, values, tags, timestamp) ==
    Line(name, values, MergeTags(client.tags, OrEmpty(tags)), timestamp)

\* ClientBase.metric
Metric(name, values, tags, timestamp) ==
    /\ IF IsEmptyCall(name, values)
       THEN out' = [Outcome("metric", "none", <<>>)
                      EXCEPT !.args = Args(name, values, tags, timestamp)]
       ELSE \E sendto \in SendtoOutcomes :
              \E s \in {Send(MetricLine(name, values, tags, timestamp), sendto)} :
                 out' = [Outcome("metric", s.raised, <<s>>)
                           EXCEPT !.args = Args(name, values, tags, timestamp)]
    /\ UNCHANGED <<client, timers, wrappers, calls, entered, reported, configured, now>>

\* ClientBase.timer: a new TimerHelper.
Timer(i, name, tags, use_ms) ==
    /\ ~timers[i].alive
    /\ timers' = [timers EXCEPT ![i] =
                    [alive |-> TRUE, measurement_name |-> name, tags |-> OrEmpty(tags),
                     use_ms |-> use_ms, start_time |-> NoNumber]]
    /\ configured' = [configured EXCEPT ![i] = name]
    /\ out' = [Outcome("timer", "none", <<>>) EXCEPT !.timer = i]
    /\ UNCHANGED <<client, wrappers, calls, entered, reported, now>>

\* The clock advances.
Tick ==
    /\ now < MaxTime
    /\ now' = now + 1
    /\ out' = [Outcome("tick", "none", <<>>) EXCEPT !.at = now + 1]
    /\ UNCHANGED <<client, timers, wrappers, calls, entered, reported, configured>>

\* ---------------------------------------------------------- TimerHelper
\* A variant of the tags below that keeps a configured units tag.
ReportTagsKeep(tags, use_ms) ==
    [k \in DOMAIN tags \cup {Units} |->
        IF k \in DOMAIN tags THEN tags[k]
        ELSE IF use_ms THEN <<"m", "s">> ELSE <<"s">>]

\* tags = self.tags.copy(); tags['units'] = 'ms' or 's'
ReportTags(tags, use_ms) ==
    [k \in DOMAIN tags \cup {Units} |->
        IF k = Units THEN (IF use_ms THEN <<"m", "s">> ELSE <<"s">>) ELSE tags[k]]

\* elapsed = time() - start_time; int(round(1000 * elapsed)) with use_ms.
\* The clock counts whole milliseconds, so the rounding changes no digit:
\* only the type differs.
Elapsed(start_time, use_ms) ==
    IF use_ms THEN IntV(now - start_time) ELSE FloatV(now - start_time)

\* The line _send builds.
ReportLine(t, start_time) ==
    Line(t.measurement_name, Scalar(Elapsed(start_time, t.use_ms)),
         ReportTags(t.tags, t.use_ms), NoNumber)

\* TimerHelper._send
TimerSend(t, start_time, sendto) == Send(ReportLine(t, start_time), sendto)

\* TimerHelper.__call__: the name is derived only while none is set.
Decorate(i, f) ==
    /\ timers[i].alive
    /\ [timer |-> i, func |-> f] \notin wrappers
    /\ timers' = [timers EXCEPT ![i].measurement_name =
                    IF Truthy(@) THEN @ ELSE Some(DerivedName(f))]
    /\ wrappers' = wrappers \cup {[timer |-> i, func |-> f]}
    /\ out' = [Outcome("decorate", "none", <<>>) EXCEPT !.timer = i, !.func = f]
    /\ UNCHANGED <<client, calls, entered, reported, configured, now>>

\* An invocation begins: start = time(), then the function runs.
Begin(c) ==
    /\ [timer |-> c.timer, func |-> c.func] \in wrappers
    /\ c.start = now
    /\ Active < MaxActive
    /\ calls' = [calls EXCEPT ![c] = @ + 1]
    /\ out' = [Outcome("begin", "none", <<>>) EXCEPT !.timer = c.timer, !.func = c.func]
    /\ UNCHANGED <<client, timers, wrappers, entered, reported, configured, now>>

\* The function has returned or raised: finally: self._send(start).  An
\* exception of _send replaces what the function did.
End(c, result) ==
    /\ calls[c] > 0
    /\ \E sendto \in SendtoOutcomes :
         \E s \in {TimerSend(timers[c.timer], c.start, sendto)} :
            out' = [Outcome("end", IF s.raised # "none" THEN s.raised
                                   ELSE IF result = "returned" THEN "none"
                                   ELSE result, <<s>>)
                      EXCEPT !.timer = c.timer, !.func = c.func, !.result = result,
                             !.unit_start = c.start]
    /\ calls' = [calls EXCEPT ![c] = @ - 1]
    /\ UNCHANGED <<client, timers, wrappers, entered, reported, configured, now>>

\* wrapped, the wrapper of an ordinary function: its call ...
WrappedCall(c) == ~IsCoroutineFunction(c.func) /\ Begin(c)

\* ... and its finally clause.
WrappedFinally(c, result) == ~IsCoroutineFunction(c.func) /\ End(c, result)

\* wrapped_co, the wrapper of an async function, up to its await ...
WrappedCoCall(c) == IsCoroutineFunction(c.func) /\ Begin(c)

\* ... and from the end of the awaited coroutine on.
WrappedCoFinally(c, result) == IsCoroutineFunction(c.func) /\ End(c, result)

\* A variant of the test below that only asks whether the name is None.
NameIsNone(t) == ~t.measurement_name.some

\* if not self.measurement_name
NameMissing(t) == ~Truthy(t.measurement_name)

\* A variant of the assignment below that keeps a start time already set.
ArmedOnce(t) == IF t.start_time.some THEN t ELSE [t EXCEPT !.start_time = Number(now)]

\* self.start_time = time()
Armed(t) == [t EXCEPT !.start_time = Number(now)]

\* TimerHelper.__enter__
Enter(i) ==
    /\ timers[i].alive
    /\ IF NameMissing(timers[i])
       THEN /\ out' = [Outcome("enter", "TypeError", <<>>) EXCEPT !.timer = i]
            /\ UNCHANGED <<timers, entered>>
       ELSE /\ Active < MaxActive
            /\ timers' = [timers EXCEPT ![i] = Armed(@)]
            /\ entered' = [entered EXCEPT ![i] =
                             Append(@, [at |-> now, after_report |-> reported[i]])]
            /\ out' = [Outcome("enter", "none", <<>>) EXCEPT !.timer = i]
    /\ UNCHANGED <<client, wrappers, calls, reported, configured, now>>

\* TimerHelper.__exit__, at the end of a with-block that returned or raised,
\* or called directly.  It returns None, so the block's exception goes on; an
\* instance never entered has no start_time attribute.
Exit(i, result) ==
    /\ timers[i].alive
    /\ LET open == entered[i] # <<>>
           mine == IF open THEN entered[i][Len(entered[i])]
                   ELSE [at |-> 0, after_report |-> FALSE]
           base == [Outcome("exit", "none", <<>>)
                      EXCEPT !.timer = i, !.result = result, !.matched = open,
                             !.again = mine.after_report, !.unit_start = mine.at]
       IN /\ entered' = [entered EXCEPT ![i] = IF open THEN SubSeq(@, 1, Len(@) - 1) ELSE @]
          /\ IF ~timers[i].start_time.some
             THEN /\ out' = [base EXCEPT !.raised = "AttributeError"]
                  /\ UNCHANGED reported
             ELSE /\ \E sendto \in SendtoOutcomes :
                       \E s \in {TimerSend(timers[i], timers[i].start_time.v, sendto)} :
                          out' = [base EXCEPT
                                    !.raised = IF s.raised # "none" THEN s.raised
                                               ELSE IF result = "returned" THEN "none"
                                               ELSE result,
                                    !.sends = <<s>>]
                  /\ reported' = [reported EXCEPT ![i] = TRUE]
    /\ UNCHANGED <<client, timers, wrappers, calls, configured, now>>

\* ------------------------------------------------------- specifications
MetricStep ==
    \E n \in MetricNames, v \in MetricValues, t \in CallTags, ts \in Timestamps :
       Metric(n, v, t, ts)

NewTimer ==
    \E i \in TimerIds, n \in TimerNames, t \in TimerTags, ms \in BOOLEAN :
       Timer(i, n, t, ms)

DecorateStep == \E i \in TimerIds, f \in FuncNames : Decorate(i, f)

CallStep ==
    \/ \E c \in CallKeys : WrappedCall(c)
    \/ \E c \in CallKeys, r \in Results : WrappedFinally(c, r)
    \/ \E c \in CallKeys : WrappedCoCall(c)
    \/ \E c \in CallKeys, r \in Results : WrappedCoFinally(c, r)

BlockStep ==
    \/ \E i \in TimerIds : Enter(i)
    \/ \E i \in TimerIds, r \in Results : Exit(i, r)

\* Everything the application and the clock can do.
Next == MetricStep \/ NewTimer \/ DecorateStep \/ CallStep \/ BlockStep \/ Tick

Spec == Init /\ [][Next]_vars

\* The three uses of a client are explored apart.  metric() reads the
\* client's tags and nothing else and writes nothing; the wrappers of
\* decorated functions keep their start time in a local variable and read
\* none of what __enter__ and __exit__ write; __enter__ and __exit__ read
\* nothing of the open invocations.  Decorating writes the measurement name
\* that both timer uses read, so it is part of both.
MetricNext == MetricStep
SpecMetric == Init /\ [][MetricNext]_vars

DecoratorNext == NewTimer \/ DecorateStep \/ CallStep \/ Tick
SpecDecorator == Init /\ [][DecoratorNext]_vars

ScopedNext == NewTimer \/ DecorateStep \/ BlockStep \/ Tick
SpecScoped == Init /\ [][ScopedNext]_vars

\* --------------------------------------------------------------- claims
\* "No data" as the interface states it: no name or an empty one, or values
\* None or {}.
NoData(name, values) ==
    \/ ~name.some
    \/ name.v = <<>>
    \/ values = NoValues
    \/ values = Mapping(EmptyMap)

\* C1: a call of metric() with no name or no values calls send zero times and
\* returns without an error; every other call calls send exactly once.
C1_SendsOnceOrNever ==
    out.op = "metric" =>
       /\ Len(out.sends) = (IF NoData(out.args.name, out.args.values) THEN 0 ELSE 1)
       /\ NoData(out.args.name, out.args.values) => out.raised = "none"

\* The value 0 is data: it was sent.
C1_Witness ==
    /\ out.op = "metric"
    /\ out.args.values = Scalar(IntV(0))
    /\ Len(out.sends) = 1

\* C2: the tags of the line metric() hands to send are the client's tags
\* overlaid with the call's: the keys of both, the call's value wherever the
\* call has the key, the client's value elsewhere.
C2_ShallowMerge ==
    (out.op = "metric" /\ ~NoData(out.args.name, out.args.values)) =>
       LET T == IF out.args.tags.some THEN out.args.tags.v ELSE EmptyMap
           D == client.tags
           sent == out.sends[1]
           got == sent.line.tags
       IN /\ DOMAIN got = DOMAIN D \cup DOMAIN T
          /\ \A k \in DOMAIN T : got[k] = T[k]
          /\ \A k \in DOMAIN D \ DOMAIN T : got[k] = D[k]
          /\ sent.data =
                ToLineProtocol(Line(out.args.name, out.args.values, got, out.args.timestamp))

\* {env: prod} under {env: staging, host: a} went out as {env: staging, host: a}.
C2_Witness ==
    /\ out.op = "metric"
    /\ client.tags = EnvProd
    /\ out.args.tags = Some(EnvStagingHostA)
    /\ Len(out.sends) = 1
    /\ out.sends[1].line.tags = EnvStagingHostA

\* C3: metric() never raises to its caller.
C3_NeverRaises == out.op = "metric" => out.raised = "none"

\* C4: the exit that closes a with-block calls send exactly once; the line's
\* units tag is ms with use_ms and s without, whatever units tag the timer
\* was configured with; an exception of the block is not swallowed.
C4_OneReportPerBlock ==
    (out.op = "exit" /\ out.matched) =>
       /\ Len(out.sends) = 1
       /\ out.sends[1].line.tags[Units] =
             (IF timers[out.timer].use_ms THEN <<"m", "s">> ELSE <<"s">>)
       /\ out.result # "returned" => out.raised # "none"

\* A block that raised, on a timer configured with its own units tag.
C4_Witness ==
    /\ out.op = "exit"
    /\ out.matched
    /\ out.result = "AppError"
    /\ out.raised = "AppError"
    /\ Units \in DOMAIN timers[out.timer].tags
    /\ timers[out.timer].use_ms
    /\ Len(out.sends) = 1
    /\ out.sends[1].line.tags[Units] = <<"m", "s">>

\* C5: entering a timer whose name is None or empty raises at once, records
\* no start time and sends nothing.
C5_EnterWithoutName ==
    (out.op = "enter" /\ ( \/ ~timers[out.timer].measurement_name.some
                           \/ timers[out.timer].measurement_name.v = <<>> )) =>
       /\ out.raised = "TypeError"
       /\ out.sends = <<>>
       /\ ~timers[out.timer].start_time.some
       /\ entered[out.timer] = <<>>

\* The empty name was refused.
C5_Witness ==
    /\ out.op = "enter"
    /\ timers[out.timer].measurement_name = Some(<<>>)
    /\ out.raised = "TypeError"

\* C6: an invocation of a decorated function ends with exactly one call of
\* send, and what the function did, its return or its exception, is what the
\* caller gets.
C6_ReportAndPassThrough ==
    out.op = "end" =>
       /\ Len(out.sends) = 1
       /\ out.raised = (IF out.result = "returned" THEN "none" ELSE out.result)

\* C7: a timer's report reaches send as metric(name, elapsed, tags with
\* units) of the same client would hand it over.
C7_ReportedAsMetric ==
    (out.op \in {"end", "exit"} /\ out.sends # <<>>) =>
       LET line == out.sends[1].line
       IN out.sends[1].data =
             ToLineProtocol(MetricLine(line.name, line.values, Some(line.tags), NoNumber))

\* C8 as stated: once an instance has reported, a later enter/exit pair on it
\* sends nothing more.
C8_ReportedIsTerminal ==
    (out.op = "exit" /\ out.matched /\ out.again) => out.sends = <<>>

\* C8 as the code has it: every enter of a named instance records the time of
\* that enter as the start time, also after a report, and every exit that
\* closes a block sends one line.
C8_EveryCycleReports ==
    /\ (out.op = "enter" /\ out.raised = "none") =>
          /\ timers[out.timer].start_time = Number(out.at)
          /\ entered[out.timer] # <<>>
    /\ (out.op = "exit" /\ out.matched) =>
          /\ Len(out.sends) = 1
          /\ reported[out.timer]

\* An instance that had reported was entered again and armed anew.
C8_Witness ==
    /\ out.op = "enter"
    /\ out.raised = "none"
    /\ reported[out.timer]
    /\ out.at > 0
    /\ timers[out.timer].start_time = Number(out.at)

\* C9: a timer constructed with a name reports under it; one constructed
\* without reports each decorated function under that function's own name.
C9_NameOfTheFunction ==
    out.op = "end" =>
       out.sends[1].line.name =
          (IF Truthy(configured[out.timer]) THEN configured[out.timer]
           ELSE Some(DerivedName(out.func)))

\* C10: the elapsed time of a report is the time of the report less the start
\* of the same unit of work: the invocation's own start, the matching enter.
C10_ElapsedOfTheSameUnit ==
    ((out.op = "exit" /\ out.matched) \/ out.op = "end") =>
       out.sends[1].line.values.val.v = out.at - out.unit_start
====
